---- MODULE Spec2Model ----
(***************************************************************************)
(* State-machine model of esp32s2-powermeter:                              *)
(*   - the List widget of src/src/graphics.rs (selection and virtual       *)
(*     scrolling window),                                                  *)
(*   - the input-to-display pipeline of src/src/main.rs: three button      *)
(*     tasks and the sensor poller (handle_power) feeding INPUT_CHANNEL,   *)
(*     the render loop of main consuming it, and CALIBRATION_SIGNAL going  *)
(*     back from the render loop to the poller.                            *)
(*                                                                         *)
(* Scheduling is the embassy executor's: one thread, cooperative, a task   *)
(* runs from one .await to the next without interruption.  An action of    *)
(* the model is therefore one such run-to-suspension step.                 *)
(***************************************************************************)
EXTENDS Integers, Sequences, FiniteSets, TLC

(***************************************************************************)
(* Bounds of the model.                                                    *)
(***************************************************************************)
MaxItems == 3            \* List::new is tried with 0..MaxItems items
MaxViewportHeight == 4   \* size.height is 10, 20, .. 10 * MaxViewportHeight
MaxItemHeight == 2       \* get_height() is 0, 10, .. 10 * MaxItemHeight
ListWidth == 40          \* size.width of the list, in pixels
MaxEvents == 3           \* sends that may complete on INPUT_CHANNEL
MaxTextLen == 5          \* texts given to the ellipsis truncation: 0..MaxTextLen
MaxTruncWidth == 6       \* its width argument: 0..MaxTruncWidth pixels
MaxCharWidth == 2        \* font.character_size.width: 1..MaxCharWidth

(***************************************************************************)
(* usize arithmetic.  `a - b` on usize panics when it underflows in a      *)
(* build with overflow checks (the dev profile) and wraps modulo 2^w in a  *)
(* build without (the release profile); the repository fixes neither, so   *)
(* overflow_checks is chosen in Init.  UsizeMax stands for usize::MAX: TLC *)
(* integers are 32-bit signed, so the largest value TLC has represents it; *)
(* the model reaches no index anywhere near it.                            *)
(***************************************************************************)
UsizeMax == 2147483647

\* The value of `a - b` when no panic occurs (wrapping in an unchecked build).
UsizeSub(a, b) == IF a >= b THEN a - b ELSE UsizeMax - (b - a - 1)

\* Whether `a - b` panics ("attempt to subtract with overflow").
SubPanics(checks, a, b) == checks /\ a < b

(***************************************************************************)
(* Variables.                                                              *)
(***************************************************************************)
VARIABLES
    \* ---- build profile
    overflow_checks,  \* TRUE: arithmetic overflow panics; FALSE: it wraps
    \* ---- List<T> (graphics.rs:84-94)
    list_state,       \* "none" (not constructed), "live", "panicked"
    list_items,       \* the items, each represented by its get_height()
    visible_lines,
    selected_index,
    window_start,
    list_ret,         \* value returned by the last select_at_pos; -1 when
                      \*   it returned Err or another operation ran last
    list_point,       \* history: the point given to the last operation when
                      \*   that was select_at_pos, else << >>
    list_op,          \* history: the last List operation that ran
    list_prev         \* history: <<selected_index, window_start>> before it

listVars == << list_state, list_items, visible_lines,
               selected_index, window_start, list_ret, list_point, list_op,
               list_prev >>

VARIABLES
    \* ---- firmware (main.rs)
    halted,           \* a panic has stopped the firmware (all tasks)
    pin_level,        \* level of GPIO0..2, driven by the user
    btn_pc,           \* per button task: "unspawned", "spawned", "wait",
                      \*   "woken", "send", "cooldown",
                      \*   "panicked" (its wait returned Err)
    power_pc,         \* handle_power: "unspawned", "absent", "init", "terminated",
                      \*   "check", "settle", "send", "tick"
    power_pending,    \* the InputData handle_power is suspended sending
    chan,             \* INPUT_CHANNEL: the queued InputData, oldest first
    signal,           \* CALIBRATION_SIGNAL: None or the pending Calibration
    driver_cal,       \* Calibration of the last successful INA219 init
    cal_index,        \* main: cal_index
    power_display,    \* main: power_display
    last_power_display_buf,
    display,          \* what the panel shows: overlay, value, unit
    input_data,       \* main: the InputData of the last loop iteration
    \* ---- history
    send_count,       \* sends completed on INPUT_CHANNEL
    recv_count,       \* receives completed by the render loop
    cal_events,       \* button-0 events the render loop has processed
    cal_bursts,       \* publications made while the signal was empty
    reinit_count,     \* re-initializations handle_power has attempted
    last_published,   \* the Calibration of the last signal()
    last_applied,     \* the Calibration of the last re-initialization
    prev_power_display, \* power_display before the last loop iteration
    power_trace,      \* handle_power: the driver calls and delays of the
                      \*   current loop iteration (of the first init before)
    drawn,            \* what the last render iteration drew: "overlay",
                      \*   "readout", "nothing" ("none" before the first),
                      \*   "overlay_failed", "readout_failed" for an Err
    prev_last_buf,    \* last_power_display_buf before that iteration
    prev_overlay,     \* the overlay whole on the panel before that
                      \*   iteration, None when there was none
    \* ---- startup and the shared I2C bus (main.rs:243-404, max1704x.rs)
    main_pc,          \* main: "probe_ina219", "probe_lipo", "lipo_read",
                      \*   "lipo_write_reg", "lipo_write_val", "spawn",
                      \*   "vcell", "delay", "loop", "panicked"
    has_ina219,       \* main: has_ina219
    has_lipo_monitor, \* main: has_lipo_monitor
    cpu,              \* the task running between two suspension points
                      \*   ("main", "power"), None when every task is suspended
    txn_open,         \* per I2cDevice handle (0: i2c0_dev0, 1: i2c0_dev1):
                      \*   a driver call has made some of its bus operations
    bus_conflict      \* history: a handle made a bus operation while the
                      \*   other handle's driver call was under way

busVars == << main_pc, has_ina219, has_lipo_monitor, cpu, txn_open,
              bus_conflict >>

pipeVars == << halted, pin_level, btn_pc, power_pc, power_pending, chan,
               signal, driver_cal, cal_index, power_display,
               last_power_display_buf, display, input_data,
               send_count, recv_count, cal_events,
               cal_bursts, reinit_count, last_published, last_applied,
               prev_power_display, power_trace, drawn, prev_last_buf,
               prev_overlay, busVars >>

VARIABLES
    \* ---- GraphicUtils::get_text_with_ellipsis_from_str (graphics.rs:64-74)
    trunc_pc,         \* "idle", "once" (called), "twice" (called on its output)
    trunc_in,         \* the arguments of the first call
    trunc_out,        \* its outcome: a panic, or the String returned
    trunc_out2        \* the outcome of the call on trunc_out.text

truncVars == << trunc_pc, trunc_in, trunc_out, trunc_out2 >>

vars == << overflow_checks, listVars, pipeVars, truncVars >>

(***************************************************************************)
(* List widget, src/src/graphics.rs                                        *)
(***************************************************************************)
item_count == Len(list_items)

\* Lengths are in pixels.  The list is placed at the origin (pos) and is
\* ListWidth wide; List::draw, which scroll_down, scroll_up and select_at_pos
\* call last, assigns no field of the List, and the lists tried are ones it
\* can render: at least as wide as the scrollbar strip (20) and as tall as
\* the scrollbar margin (10), with item texts that fit their row.
ViewportHeights == { 10 * k : k \in 1..MaxViewportHeight }

ItemHeights == { 10 * k : k \in 0..MaxItemHeight }

\* The item lists tried: up to MaxItems items, the first of any height and
\* the others of one common height (so rows of different heights, whose boxes
\* overlap or leave gaps, occur in every window).
ItemLists ==
    { items \in UNION { [1..n -> ItemHeights] : n \in 0..MaxItems } :
        \A i, j \in 2..Len(items) : items[i] = items[j] }

\* List::new, graphics.rs:103: the u16 division panics on a zero divisor.
NewPanics(items) == Len(items) # 0 /\ items[1] = 0

\* List::new, graphics.rs:103: size.height is cast to u16 before dividing.
NewVisibleLines(items, height) ==
    IF Len(items) = 0 THEN 1 ELSE (height % 65536) \div items[1]

ListNew(items, height) ==
    /\ list_state = "none"
    /\ list_items' = items
    /\ selected_index' = 0
    /\ window_start' = 0
    /\ list_ret' = -1
    /\ list_point' = << >>
    /\ list_op' = "new"
    /\ list_prev' = << 0, 0 >>
    /\ IF NewPanics(items)
       THEN /\ list_state' = "panicked"
            /\ visible_lines' = 0
       ELSE /\ list_state' = "live"
            /\ visible_lines' = NewVisibleLines(items, height)
    /\ UNCHANGED << overflow_checks, pipeVars, truncVars >>

\* The rows List::draw and List::select_at_pos visit (graphics.rs:156, 216):
\* window_start .. min(window_start + visible_lines, len) - 1.
Min(a, b) == IF a < b THEN a ELSE b

WindowRows(ws, vl, n) == { i \in 0..(n - 1) : ws <= i /\ i < Min(ws + vl, n) }

\* Mutant of ScrollDownSelected: the bound is len instead of len - 1.
ScrollDownSelectedPastEnd(sel, n) ==
    IF sel < n THEN sel + 1 ELSE sel

\* scroll_down, graphics.rs:192-194.
ScrollDownSelected(sel, n) ==
    IF sel < UsizeSub(n, 1) THEN sel + 1 ELSE sel

\* Mutant of ScrollDownWindow: the window does not follow the selection.
ScrollDownWindowStays(sel, ws, vl) == ws

\* scroll_down, graphics.rs:195-197, on the updated selected_index.
ScrollDownWindow(sel, ws, vl) ==
    IF sel > UsizeSub(ws + vl, 1) THEN ws + 1 ELSE ws

ScrollDown ==
    /\ list_state = "live"
    /\ selected_index <= MaxItems   \* caps the index of a wrapped empty list
    /\ list_op' = "scroll_down"
    /\ list_point' = << >>
    /\ list_prev' = << selected_index, window_start >>
    /\ IF SubPanics(overflow_checks, item_count, 1)
       THEN /\ list_state' = "panicked"
            /\ UNCHANGED << selected_index, window_start >>
       ELSE LET sel == ScrollDownSelected(selected_index, item_count) IN
            /\ selected_index' = sel
            /\ IF SubPanics(overflow_checks, window_start + visible_lines, 1)
               THEN /\ list_state' = "panicked"
                    /\ UNCHANGED window_start
               ELSE /\ list_state' = "live"
                    /\ window_start' =
                           ScrollDownWindow(sel, window_start, visible_lines)
    /\ UNCHANGED << pipeVars, truncVars >>
    /\ UNCHANGED << overflow_checks, list_items,
                    visible_lines, list_ret >>

\* scroll_up, graphics.rs:204-206.
ScrollUpSelected(sel) == IF sel > 0 THEN sel - 1 ELSE sel

\* Mutant of ScrollUpWindow: the window moves up on every call.
ScrollUpWindowAlways(sel, ws) == IF ws > 0 THEN ws - 1 ELSE ws

\* scroll_up, graphics.rs:207-209, on the updated selected_index.
ScrollUpWindow(sel, ws) == IF sel < ws THEN ws - 1 ELSE ws

ScrollUp ==
    /\ list_state = "live"
    /\ list_op' = "scroll_up"
    /\ list_point' = << >>
    /\ list_prev' = << selected_index, window_start >>
    /\ LET sel == ScrollUpSelected(selected_index) IN
       /\ selected_index' = sel
       /\ window_start' = ScrollUpWindow(sel, window_start)
    /\ UNCHANGED << pipeVars, truncVars >>
    /\ UNCHANGED << overflow_checks, list_state, list_items,
                    visible_lines, list_ret >>

\* Rectangle::contains for the row of item i (graphics.rs:217-220): the row's
\* box starts at pos + (0, (i - window_start) * height_i) and has size
\* (size.width, height_i); a box with a zero side contains nothing.
RowContains(i, ws, px, py) ==
    LET h  == list_items[i + 1]
        y0 == (i - ws) * h
    IN  /\ h > 0 /\ ListWidth > 0
        /\ 0 <= px /\ px <= ListWidth - 1
        /\ y0 <= py /\ py <= y0 + h - 1

\* Mutant of SelectAtPosIndex: the loop does not stop at the first hit, so
\* the last containing row is selected.
SelectAtPosIndexLast(sel, ws, vl, n, px, py) ==
    LET hits == { i \in WindowRows(ws, vl, n) : RowContains(i, ws, px, py) }
    IN  IF hits = {} THEN sel
        ELSE CHOOSE i \in hits : \A j \in hits : i >= j

\* select_at_pos, graphics.rs:216-224: the first row in window order whose
\* box contains the point, or the old selection.
SelectAtPosIndex(sel, ws, vl, n, px, py) ==
    LET hits == { i \in WindowRows(ws, vl, n) : RowContains(i, ws, px, py) }
    IN  IF hits = {} THEN sel
        ELSE CHOOSE i \in hits : \A j \in hits : i <= j

\* The points tried: on and just beyond the edges of the list and of the
\* rows of each height.
PointXs == { -1, 0, ListWidth - 1, ListWidth }

PointYs == { -1 } \cup { 10 * k : k \in 0..MaxViewportHeight }
                  \cup { 10 * k + 9 : k \in 0..MaxViewportHeight }

\* Each horizontal edge along the top of the list, and each vertical edge
\* down its left side.
Points == { << px, 0 >> : px \in PointXs } \cup { << 0, py >> : py \in PointYs }

\* select_at_pos, graphics.rs:214-227: the hit test, then self.draw(display)?
\* whose Err is returned in place of Ok(self.selected_index).
SelectAtPos(px, py, draw_ok) ==
    /\ list_state = "live"
    /\ list_op' = "select_at_pos"
    /\ list_point' = << px, py >>
    /\ list_prev' = << selected_index, window_start >>
    /\ selected_index' = SelectAtPosIndex(selected_index, window_start,
                                          visible_lines, item_count, px, py)
    /\ list_ret' = IF draw_ok THEN selected_index' ELSE -1
    /\ UNCHANGED << pipeVars, truncVars >>
    /\ UNCHANGED << overflow_checks, list_state, list_items,
                    visible_lines, window_start >>

\* set_selected_index, graphics.rs:233-237.
SetSelectedIndexValue(sel, index, n) ==
    IF index >= 0 /\ index < n THEN index ELSE sel

SetSelectedIndex(index) ==
    /\ list_state = "live"
    /\ list_op' = "set_selected_index"
    /\ list_point' = << >>
    /\ list_prev' = << selected_index, window_start >>
    /\ selected_index' = SetSelectedIndexValue(selected_index, index, item_count)
    /\ UNCHANGED << pipeVars, truncVars >>
    /\ UNCHANGED << overflow_checks, list_state, list_items,
                    visible_lines, window_start, list_ret >>

ListInit ==
    /\ list_state = "none"
    /\ list_items = << >>
    /\ visible_lines = 0
    /\ selected_index = 0
    /\ window_start = 0
    /\ list_ret = -1
    /\ list_point = << >>
    /\ list_op = "none"
    /\ list_prev = << 0, 0 >>

(***************************************************************************)
(* Ellipsis truncation, src/src/graphics.rs:64-74.  A text is the sequence *)
(* of its bytes; the texts tried are ASCII, one byte per character, so     *)
(* text.len() is the number of characters and every index is a character   *)
(* boundary.  The products and quotients stay far below 2^32.              *)
(***************************************************************************)
TextChars == { "a", "." }

Texts == UNION { [1..n -> TextChars] : n \in 0..MaxTextLen }

Ellipsis == << ".", ".", "." >>

Returned(text) == [panic |-> FALSE, text |-> text]

Panicked == [panic |-> TRUE, text |-> << >>]

\* str::split_at(mid).0: panics when mid is past the end of the text.
SplitAtPanics(text, mid) == mid > Len(text)

SplitAtHead(text, mid) == SubSeq(text, 1, mid)

\* Mutant of TextWithEllipsis: the marker is appended to a text that fits too.
TextWithEllipsisAlwaysMarks(checks, width, text, char_width) ==
    IF char_width * Len(text) > width
    THEN LET text_len_visible == width \div char_width
             mid == UsizeSub(text_len_visible, 3)
         IN  IF SubPanics(checks, text_len_visible, 3)
                \/ SplitAtPanics(text, mid)
             THEN Panicked
             ELSE Returned(SplitAtHead(text, mid) \o Ellipsis)
    ELSE Returned(text \o Ellipsis)

\* get_text_with_ellipsis_from_str(width, text, font), the font given by its
\* character_size.width.  text_len_visible - 3 is a u32 subtraction: it
\* panics under overflow checks, and wraps otherwise to an index past the
\* end of the text, where split_at panics.
TextWithEllipsis(checks, width, text, char_width) ==
    IF char_width * Len(text) > width
    THEN LET text_len_visible == width \div char_width
             mid == UsizeSub(text_len_visible, 3)
         IN  IF SubPanics(checks, text_len_visible, 3)
                \/ SplitAtPanics(text, mid)
             THEN Panicked
             ELSE Returned(SplitAtHead(text, mid) \o Ellipsis)
    ELSE Returned(text)

NoCall == [width |-> 0, text |-> << >>, char_width |-> 1]

TruncInit ==
    /\ trunc_pc = "idle"
    /\ trunc_in = NoCall
    /\ trunc_out = Returned(<< >>)
    /\ trunc_out2 = Returned(<< >>)

\* A call of get_text_with_ellipsis_from_str.
TruncCall(width, text, char_width) ==
    /\ trunc_pc = "idle"
    /\ trunc_pc' = "once"
    /\ trunc_in' = [width |-> width, text |-> text, char_width |-> char_width]
    /\ trunc_out' = TextWithEllipsis(overflow_checks, width, text, char_width)
    /\ UNCHANGED << overflow_checks, listVars, pipeVars, trunc_out2 >>

\* A second call, with the same width and font, on the String returned.
TruncCallAgain ==
    /\ trunc_pc = "once"
    /\ ~trunc_out.panic
    /\ trunc_pc' = "twice"
    /\ trunc_out2' = TextWithEllipsis(overflow_checks, trunc_in.width,
                                      trunc_out.text, trunc_in.char_width)
    /\ UNCHANGED << overflow_checks, listVars, pipeVars, trunc_in, trunc_out >>

(***************************************************************************)
(* Firmware, src/src/main.rs                                               *)
(***************************************************************************)
None == "None"

Buttons == 0..2

\* INPUT_CHANNEL is a Channel<_, InputData, 1>.
ChannelCap == 1

\* ina219_rs::Calibration, in declaration order (the three variants that
\* get_calibration_text matches exhaustively).
Calibration == << "32V_2A", "32V_1A", "16V_400mA" >>

\* cardinality::<Calibration>()
CalibrationCardinality == Len(Calibration)

get_calibration(index) ==
    CASE index = 0 -> "32V_2A"
      [] index = 1 -> "32V_1A"
      [] index = 2 -> "16V_400mA"
      [] OTHER     -> "32V_2A"

get_calibration_text(cal) ==
    CASE cal = "32V_2A"    -> "32V - 2A"
      [] cal = "32V_1A"    -> "32V - 1A"
      [] cal = "16V_400mA" -> "16V - 400mA"

\* Mutant of NextCalIndex: the modulus is one too large.
NextCalIndexOffByOne(index) == (index + 1) % (CalibrationCardinality + 1)

\* main.rs:429
NextCalIndex(index) == (index + 1) % CalibrationCardinality

\* PowerDisplay, in declaration order (derive(Sequence)).
PowerDisplay == << "Voltage", "Current", "Power" >>

PowerDisplayPos(mode) == CHOOSE i \in 1..Len(PowerDisplay) : PowerDisplay[i] = mode

\* Sequence::previous / Sequence::next: None at the ends of the enumeration.
PowerDisplayPrevious(mode) ==
    IF PowerDisplayPos(mode) = 1 THEN None
    ELSE PowerDisplay[PowerDisplayPos(mode) - 1]

\* Mutant of PowerDisplayNext: the enumeration wraps around.
PowerDisplayNextCycle(mode) ==
    PowerDisplay[(PowerDisplayPos(mode) % Len(PowerDisplay)) + 1]

PowerDisplayNext(mode) ==
    IF PowerDisplayPos(mode) = Len(PowerDisplay) THEN None
    ELSE PowerDisplay[PowerDisplayPos(mode) + 1]

UnwrapOr(opt, default) == IF opt = None THEN default ELSE opt

\* main.rs:436 and main.rs:439
ModeAfterButton(button, mode) ==
    CASE button = 1 -> UnwrapOr(PowerDisplayPrevious(mode), "Voltage")
      [] button = 2 -> UnwrapOr(PowerDisplayNext(mode), "Power")
      [] OTHER      -> mode

\* PowerMonitor values: InputData::new()'s zeros and what sense() may
\* return.  The four fields come from four register reads, so a reading may
\* pair a zero current with a non-zero voltage and power.
ZeroPower == [Shunt |-> 0, Voltage |-> 0, Current |-> 0, Power |-> 0]

SensedPower ==
    { [Shunt |-> 0, Voltage |-> 5, Current |-> 0, Power |-> 10],
      [Shunt |-> 1, Voltage |-> 5, Current |-> 2, Power |-> 10] }

\* InputData::new() with the button or the power field assigned; id is the
\* history tag given when the send completes (0 before).
ButtonData(b) == [button |-> b, power |-> ZeroPower, msg |-> None, id |-> 0]

PowerData(p) == [button |-> -1, power |-> p, msg |-> None, id |-> 0]

\* InputData::new() as it is built; stands where no InputData is held.
NoData == [button |-> -1, power |-> ZeroPower, msg |-> None, id |-> 0]

\* What ina219.sense() may return: Err, or Ok with a reading.
SenseResults ==
    { [ok |-> FALSE, power |-> ZeroPower] }
        \cup { [ok |-> TRUE, power |-> p] : p \in SensedPower }

\* A text written by write!: the format specification and the value.
Text(fmt, value) == << fmt, value >>

EmptyText == << >>

\* Mutant of FormatReadout: the field is formatted whatever the current is.
FormatReadoutNoFallback(mode, power) ==
    CASE mode = "Voltage" -> Text("{:>2.3}", power.Voltage)
      [] mode = "Current" -> Text("{:>5}", power.Current)
      [] mode = "Power"   -> Text("{:>5}", power.Power)

\* main.rs:447-480: power_display_buf for a mode and a reading.
FormatReadout(mode, power) ==
    CASE mode = "Voltage" ->
            IF power.Current # 0 THEN Text("{:>2.3}", power.Voltage)
            ELSE Text("{:>2.3}", 0)
      [] mode = "Current" ->
            IF power.Current # 0 THEN Text("{:>5}", power.Current)
            ELSE Text("{:>5}", 0)
      [] mode = "Power" ->
            IF power.Current # 0 THEN Text("{:>5}", power.Power)
            ELSE Text("{:>5}", 0)

\* main.rs:462, 470, 478: unit_display_buf.
FormatUnit(mode) ==
    CASE mode = "Voltage" -> "V "
      [] mode = "Current" -> "mA"
      [] mode = "Power"   -> "mW"

\* The level each task waits for: GPIO0 is pulled up and waited low
\* (main.rs:126-128), GPIO1 and GPIO2 are pulled down and waited high.
WaitLevel(b) == IF b = 0 THEN "low" ELSE "high"

IdleLevel(b) == IF b = 0 THEN "high" ELSE "low"

\* Where a button task stands once its wait listens on a pin at level: the
\* wait is a level wait completed by the pin's interrupt, which fires as
\* soon as the pin is at the awaited level ("woken": the wait is complete
\* and the task is to be resumed); until then the task stays suspended.
Listen(b, level) == IF level = WaitLevel(b) THEN "woken" ELSE "wait"

\* Events constructed so far: sent, or held by a task suspended in send.
Created ==
    send_count + Cardinality({ b \in Buttons : btn_pc[b] = "send" })
               + (IF power_pc = "send" THEN 1 ELSE 0)

\* Mutant of ReadoutDiffers: the readout is drawn for every event.
ReadoutAlwaysDiffers(buf, last) == TRUE

\* main.rs:486: power_display_buf != last_power_display_buf
ReadoutDiffers(buf, last) == buf # last

\* Mutant of LastBufAfterOverlay: the buffer is left as it was.
LastBufAfterOverlayKept == last_power_display_buf

\* main.rs:432: last_power_display_buf.clear()
LastBufAfterOverlay == EmptyText

\* Mutant of ChannelHasRoom: one value more than the capacity is accepted.
ChannelHasRoomOneMore == Len(chan) <= ChannelCap

\* Channel::send: the slot is free.
ChannelHasRoom == Len(chan) < ChannelCap

\* Channel::send completing: the value is queued behind what is there.
ChannelPush(data) == Append(chan, [data EXCEPT !.id = send_count + 1])

\* Mutant of ChannelPop: the received value stays queued.
ChannelPopKeeps == chan

\* Channel::receive: what remains queued once the oldest value is taken.
ChannelPop == Tail(chan)

\* Mutant of SignalPublish: an unread value is kept (first wins).
SignalPublishKeepsFirst(old, cal) == IF old = None THEN cal ELSE old

\* Signal::signal: the new value replaces any unread one.
SignalPublish(old, cal) == cal

\* The two I2cDevice handles on i2c0_bus: i2c0_dev0 (INA219, main.rs:256)
\* and i2c0_dev1 (MAX17048, main.rs:257).
Devices == 0..1

\* The texts main draws before its loop (main.rs:384-401).
NoIna219Text == Text("{}", "No ina219 found")

BatteryText == Text("Battery {:1.1} V", "vcell")

\* The panel after display.clear (main.rs:326): the status overlay, the
\* value and the unit of the readout.  The three are drawn on the same
\* middle line (Baseline::Middle, main.rs:342), while a background of
\* display_text_with_background starts at that line (graphics.rs:41), so the
\* full-width background of the value covers the overlay and the unit from
\* the middle line downward only, and so does the background of a slot
\* whose own text then fails to draw: overlay_cut, value_cut and unit_cut
\* say that the lower rows of the text in the slot are covered.
BlankPanel ==
    [overlay |-> None, overlay_cut |-> FALSE, value |-> EmptyText,
     value_cut |-> FALSE, unit |-> None, unit_cut |-> FALSE]

\* The outcomes of display_text_with_background (graphics.rs:41-44): both
\* draws Ok, the background Err (the text is skipped by `?`), or the
\* background Ok and the text Err.
DrawOutcomes == { "ok", "rect_err", "text_err" }

\* The text display_text_with_background leaves in the slot it draws on:
\* the new one when both draws are Ok, else the old one (untouched when the
\* background fails, its lower rows covered when the text fails).
DrawTextWithBackground(outcome, old, new) ==
    IF outcome = "ok" THEN new ELSE old

\* Whether the text then in the slot has its lower rows covered; covered
\* says that an earlier background of the iteration went over the slot.
DrawCut(outcome, old, blank, old_cut, covered) ==
    CASE outcome = "ok"       -> FALSE
      [] outcome = "rect_err" -> old # blank /\ (old_cut \/ covered)
      [] outcome = "text_err" -> old # blank

\* The Results of the draws of one render iteration: the full-panel
\* rectangle and the text of the overlay (main.rs:483-484), and the two
\* display_text_with_background calls of the readout (main.rs:487-488).
AllDrawsOk == [clear |-> TRUE, msg |-> TRUE, value |-> "ok", unit |-> "ok"]

RenderOutcomes ==
    { [AllDrawsOk EXCEPT !.clear = c, !.msg = t] : c, t \in BOOLEAN }
        \cup { [AllDrawsOk EXCEPT !.value = v, !.unit = u] :
                   v, u \in DrawOutcomes }

\* Mutant of CpuFor: a task may run while another is between suspension
\* points (preemptive scheduling).
CpuForAnyTask(task) == TRUE

\* The executor is cooperative and single-threaded: a task runs only when
\* no other task is between two of its suspension points.
CpuFor(task) == cpu = None \/ cpu = task

\* One operation of handle dev on the bus (I2cDevice locks the bus for the
\* operation); last: it is the last one of the driver call under way.
BusOp(dev, last) ==
    /\ txn_open' = [txn_open EXCEPT ![dev] = ~last]
    /\ bus_conflict' = (bus_conflict \/ txn_open[1 - dev])

\* The state when the render loop first suspends in receive, the button
\* tasks suspended in their waits and handle_power, when spawned, not polled
\* yet.  The fuel gauge has answered Max17048::new (which would have
\* panicked otherwise); has_lipo_monitor is what the probe before it gave:
\* TRUE, and the battery text is on the panel, or FALSE, and the panel is
\* empty but for the notice drawn when no INA219 was found.
PipeInit ==
    /\ halted = FALSE
    /\ pin_level = [b \in Buttons |-> IdleLevel(b)]
    /\ btn_pc = [b \in Buttons |-> "wait"]
    /\ power_pc \in { "init", "absent" }
    /\ power_pending = NoData
    /\ chan = << >>
    /\ signal = None
    /\ driver_cal = None
    /\ cal_index = 0
    /\ power_display = "Voltage"
    /\ last_power_display_buf = EmptyText
    /\ has_lipo_monitor \in BOOLEAN
    /\ display = [BlankPanel EXCEPT !.value =
                      IF has_lipo_monitor THEN BatteryText
                      ELSE IF power_pc = "absent" THEN NoIna219Text
                      ELSE EmptyText]
    /\ input_data = NoData
    /\ send_count = 0
    /\ recv_count = 0
    /\ cal_events = 0
    /\ cal_bursts = 0
    /\ reinit_count = 0
    /\ last_published = None
    /\ last_applied = None
    /\ prev_power_display = "Voltage"
    /\ power_trace = << >>
    /\ drawn = "none"
    /\ prev_last_buf = EmptyText
    /\ prev_overlay = None
    /\ main_pc = "loop"
    /\ has_ina219 = (power_pc = "init")
    /\ cpu = None
    /\ txn_open = [dev \in Devices |-> FALSE]
    /\ bus_conflict = FALSE

renderVars == << cal_index, power_display, last_power_display_buf, display,
                 input_data, recv_count, cal_events, cal_bursts,
                 last_published, prev_power_display, drawn, prev_last_buf,
                 prev_overlay >>

powerVars == << power_pc, power_pending, driver_cal, reinit_count,
                last_applied, power_trace >>

mainVars == << main_pc, has_ina219, has_lipo_monitor >>

\* The state when main starts: nothing probed, no task spawned, main
\* running.
BootInit ==
    /\ halted = FALSE
    /\ pin_level = [b \in Buttons |-> IdleLevel(b)]
    /\ btn_pc = [b \in Buttons |-> "unspawned"]
    /\ power_pc = "unspawned"
    /\ power_pending = NoData
    /\ chan = << >>
    /\ signal = None
    /\ driver_cal = None
    /\ cal_index = 0
    /\ power_display = "Voltage"
    /\ last_power_display_buf = EmptyText
    /\ display = BlankPanel
    /\ input_data = NoData
    /\ send_count = 0
    /\ recv_count = 0
    /\ cal_events = 0
    /\ cal_bursts = 0
    /\ reinit_count = 0
    /\ last_published = None
    /\ last_applied = None
    /\ prev_power_display = "Voltage"
    /\ power_trace = << >>
    /\ drawn = "none"
    /\ prev_last_buf = EmptyText
    /\ prev_overlay = None
    /\ main_pc = "probe_ina219"
    /\ has_ina219 = FALSE
    /\ has_lipo_monitor = FALSE
    /\ cpu = "main"
    /\ txn_open = [dev \in Devices |-> FALSE]
    /\ bus_conflict = FALSE

renderState == << cal_index, power_display, last_power_display_buf,
                  input_data, recv_count, cal_events, cal_bursts,
                  last_published, prev_power_display, drawn, prev_last_buf,
                  prev_overlay >>

queueVars == << pin_level, chan, signal, send_count, power_pending,
                driver_cal, reinit_count, last_applied, power_trace >>

\* main.rs:259: has_ina219 = i2c0_dev0.read(INA219_ADDR, ..).is_ok()
MainProbeIna219(ok) ==
    /\ ~halted
    /\ CpuFor("main")
    /\ main_pc = "probe_ina219"
    /\ BusOp(0, TRUE)
    /\ has_ina219' = ok
    /\ main_pc' = "probe_lipo"
    /\ UNCHANGED << overflow_checks, listVars, truncVars, halted, btn_pc,
                    power_pc, queueVars, renderState, display,
                    has_lipo_monitor, cpu >>

\* main.rs:264: has_lipo_monitor = i2c0_dev1.read(0x36, ..).is_ok()
MainProbeLipo(ok) ==
    /\ ~halted
    /\ CpuFor("main")
    /\ main_pc = "probe_lipo"
    /\ BusOp(1, TRUE)
    /\ has_lipo_monitor' = ok
    /\ main_pc' = "lipo_read"
    /\ UNCHANGED << overflow_checks, listVars, truncVars, halted, btn_pc,
                    power_pc, queueVars, renderState, display, has_ina219,
                    cpu >>

\* A step of Max17048::new(i2c0_dev1), main.rs:267, that is one bus
\* operation of compensation(DEFAULT_RCOMP): an Err comes back through
\* compensation and new unwraps it.
MainLipoStep(ok, last, next_pc) ==
    /\ ~halted
    /\ CpuFor("main")
    /\ IF ok
       THEN /\ BusOp(1, last)
            /\ main_pc' = next_pc
            /\ UNCHANGED halted
       ELSE /\ BusOp(1, TRUE)
            /\ main_pc' = "panicked"
            /\ halted' = TRUE
    /\ UNCHANGED << overflow_checks, listVars, truncVars, btn_pc, power_pc,
                    queueVars, renderState, display, has_ina219,
                    has_lipo_monitor, cpu >>

\* max1704x.rs:65, 77-82: read(0x0C), one write_read.
MainLipoRead(ok) ==
    /\ main_pc = "lipo_read"
    /\ MainLipoStep(ok, FALSE, "lipo_write_reg")

\* max1704x.rs:70, 85: write(0x0C, value), its first i2c.write (the register).
MainLipoWriteReg(ok) ==
    /\ main_pc = "lipo_write_reg"
    /\ MainLipoStep(ok, FALSE, "lipo_write_val")

\* max1704x.rs:88: its second i2c.write (msb, lsb), which ends the call.
MainLipoWriteVal(ok) ==
    /\ main_pc = "lipo_write_val"
    /\ MainLipoStep(ok, TRUE, "spawn")

\* main.rs:269-390: the backlight and the display are set up, each Result
\* unwrapped (timer and channel configure, main.rs:289, 298; display.init,
\* set_orientation and clear, main.rs:321-326): setup_ok says that all were
\* Ok.  Then the tasks are spawned (they run once main suspends); without
\* an INA219 the notice is drawn and its Result unwrapped.  Without a fuel
\* gauge main goes on to its loop.
MainSpawn(setup_ok, draw) ==
    /\ ~halted
    /\ CpuFor("main")
    /\ main_pc = "spawn"
    /\ IF ~setup_ok
       THEN /\ main_pc' = "panicked"
            /\ halted' = TRUE
            /\ UNCHANGED << display, cpu, btn_pc, power_pc >>
       ELSE /\ btn_pc' = [b \in Buttons |-> "spawned"]
            /\ power_pc' = IF has_ina219 THEN "init" ELSE "absent"
            /\ display' =
                   IF has_ina219 THEN display
                   ELSE [display EXCEPT
                            !.value = DrawTextWithBackground(
                                          draw, @, NoIna219Text),
                            !.value_cut = DrawCut(draw, display.value,
                                                  EmptyText, @, FALSE)]
            /\ IF has_ina219 \/ draw = "ok"
               THEN /\ main_pc' = IF has_lipo_monitor THEN "vcell"
                                  ELSE "loop"
                    /\ cpu' = IF has_lipo_monitor THEN "main" ELSE None
                    /\ UNCHANGED halted
               ELSE /\ main_pc' = "panicked"
                    /\ halted' = TRUE
                    /\ UNCHANGED cpu
    /\ UNCHANGED << overflow_checks, listVars, truncVars, queueVars,
                    renderState, has_ina219, has_lipo_monitor, txn_open,
                    bus_conflict >>

\* main.rs:392-403: lipo.vcell().unwrap() is one write_read; the battery
\* text is drawn over the notice and its result unwrapped; main then
\* suspends for 5 s.
MainVcell(ok, draw) ==
    /\ ~halted
    /\ CpuFor("main")
    /\ main_pc = "vcell"
    /\ BusOp(1, TRUE)
    /\ display' = IF ok
                  THEN [display EXCEPT
                           !.value = DrawTextWithBackground(
                                         draw, @, BatteryText),
                           !.value_cut = DrawCut(draw, display.value,
                                                 EmptyText, @, FALSE)]
                  ELSE display
    /\ IF ok /\ draw = "ok"
       THEN /\ main_pc' = "delay"
            /\ cpu' = None
            /\ UNCHANGED halted
       ELSE /\ main_pc' = "panicked"
            /\ halted' = TRUE
            /\ UNCHANGED cpu
    /\ UNCHANGED << overflow_checks, listVars, truncVars, btn_pc, power_pc,
                    queueVars, renderState, has_ina219, has_lipo_monitor >>

\* main.rs:403: the 5 s are over; main enters its loop.
MainDelayDone ==
    /\ ~halted
    /\ CpuFor("main")
    /\ main_pc = "delay"
    /\ main_pc' = "loop"
    /\ UNCHANGED << overflow_checks, listVars, truncVars, halted, btn_pc,
                    power_pc, queueVars, renderState, display, has_ina219,
                    has_lipo_monitor, cpu, txn_open, bus_conflict >>

\* handle_power has entered a call of the INA219 driver (init or sense,
\* main.rs:163, 175, 178) that makes more than one bus operation, and has
\* made the first; the call is synchronous, so the task keeps running.
PowerBusBegin ==
    /\ ~halted
    /\ CpuFor("power")
    /\ power_pc \in { "init", "check", "settle" }
    /\ ~txn_open[0]
    /\ BusOp(0, FALSE)
    /\ cpu' = "power"
    /\ UNCHANGED << overflow_checks, listVars, truncVars, halted, btn_pc,
                    power_pc, queueVars, renderState, display, mainVars >>

\* The user presses or releases button b.  A task suspended in its wait
\* has the wait completed by the interrupt when the pin gets to the awaited
\* level; the task itself is resumed later (ButtonWake).
PinChange(b) ==
    /\ ~halted
    /\ LET level == IF pin_level[b] = "low" THEN "high" ELSE "low"
           fires == btn_pc[b] = "wait" /\ level = WaitLevel(b)
       IN /\ pin_level' = [pin_level EXCEPT ![b] = level]
          /\ btn_pc' = [btn_pc EXCEPT ![b] = IF fires THEN "woken" ELSE @]
    /\ UNCHANGED << overflow_checks, listVars, truncVars, busVars, halted, chan, signal,
                    send_count, renderVars, powerVars >>

\* handle_button_d0/d1/d2 polled for the first time, main.rs:126-128
\* (138-140, 150-152): the pin is configured and the wait starts to listen.
ButtonListen(b) ==
    /\ ~halted
    /\ CpuFor("button")
    /\ btn_pc[b] = "spawned"
    /\ btn_pc' = [btn_pc EXCEPT ![b] = Listen(b, pin_level[b])]
    /\ UNCHANGED << overflow_checks, listVars, truncVars, busVars, halted, pin_level, chan,
                    signal, send_count, renderVars, powerVars >>

\* handle_button_d0/d1/d2, main.rs:128-131 (140-143, 152-155): the task is
\* resumed with its wait complete, whatever the level of the pin is by now;
\* the InputData is built and sent, which completes at once when the channel
\* has room.
ButtonWake(b) ==
    /\ ~halted
    /\ CpuFor("button")
    /\ btn_pc[b] = "woken"
    /\ Created < MaxEvents
    /\ IF ChannelHasRoom
       THEN /\ chan' = ChannelPush(ButtonData(b))
            /\ send_count' = send_count + 1
            /\ btn_pc' = [btn_pc EXCEPT ![b] = "cooldown"]
       ELSE /\ btn_pc' = [btn_pc EXCEPT ![b] = "send"]
            /\ UNCHANGED << chan, send_count >>
    /\ UNCHANGED << overflow_checks, listVars, truncVars, busVars, halted, pin_level, signal,
                    renderVars, powerVars >>

\* main.rs:128 (140, 152): the wait returns Err; unwrap() panics, and a
\* panic stops the firmware, not the task alone.
ButtonWaitError(b) ==
    /\ ~halted
    /\ CpuFor("button")
    /\ btn_pc[b] = "woken"
    /\ btn_pc' = [btn_pc EXCEPT ![b] = "panicked"]
    /\ halted' = TRUE
    /\ UNCHANGED << overflow_checks, listVars, truncVars, busVars, pin_level, chan, signal,
                    send_count, renderVars, powerVars >>

\* main.rs:131: a suspended send completes once the slot is free.
ButtonSend(b) ==
    /\ ~halted
    /\ CpuFor("button")
    /\ btn_pc[b] = "send"
    /\ ChannelHasRoom
    /\ chan' = ChannelPush(ButtonData(b))
    /\ send_count' = send_count + 1
    /\ btn_pc' = [btn_pc EXCEPT ![b] = "cooldown"]
    /\ UNCHANGED << overflow_checks, listVars, truncVars, busVars, halted, pin_level, signal,
                    renderVars, powerVars >>

\* main.rs:132 and 128: the 500 ms cooldown ends and the task waits again;
\* the new wait is complete at once when the pin is at the awaited level.
ButtonCooldownDone(b) ==
    /\ ~halted
    /\ CpuFor("button")
    /\ btn_pc[b] = "cooldown"
    /\ btn_pc' = [btn_pc EXCEPT ![b] = Listen(b, pin_level[b])]
    /\ UNCHANGED << overflow_checks, listVars, truncVars, busVars, halted, pin_level, chan,
                    signal, send_count, renderVars, powerVars >>

\* Mutant of PowerInit: a failed first init is ignored and the loop entered.
PowerInitContinues(ok) ==
    /\ ~halted
    /\ CpuFor("power")
    /\ BusOp(0, TRUE)
    /\ cpu' = None
    /\ power_pc = "init"
    /\ power_pc' = "check"
    /\ IF ok
       THEN /\ driver_cal' = "32V_2A"
            /\ UNCHANGED power_trace
       ELSE /\ power_trace' = << "init_err" >>
            /\ UNCHANGED driver_cal
    /\ UNCHANGED << overflow_checks, listVars, truncVars, mainVars, halted, pin_level, btn_pc,
                    chan, signal, send_count, renderVars,
                    power_pending, reinit_count, last_applied >>

\* handle_power, main.rs:162-169: the first init; an error ends the task.
PowerInit(ok) ==
    /\ ~halted
    /\ CpuFor("power")
    /\ BusOp(0, TRUE)
    /\ cpu' = None
    /\ power_pc = "init"
    /\ IF ok
       THEN /\ power_pc' = "check"
            /\ driver_cal' = "32V_2A"
            /\ UNCHANGED power_trace
       ELSE /\ power_pc' = "terminated"
            /\ power_trace' = << "init_err" >>
            /\ UNCHANGED driver_cal
    /\ UNCHANGED << overflow_checks, listVars, truncVars, mainVars, halted, pin_level, btn_pc,
                    chan, signal, send_count, renderVars,
                    power_pending, reinit_count, last_applied >>

\* main.rs:178-182: sense(); Ok(p) is sent at once when the channel has
\* room, else the task suspends in send; Err is skipped.
PowerSenseThen(r) ==
    IF ~r.ok \/ Created >= MaxEvents
    THEN /\ power_pc' = "tick"
         /\ UNCHANGED << power_pending, chan, send_count >>
    ELSE IF ChannelHasRoom
    THEN /\ chan' = ChannelPush(PowerData(r.power))
         /\ send_count' = send_count + 1
         /\ power_pc' = "tick"
         /\ UNCHANGED power_pending
    ELSE /\ power_pc' = "send"
         /\ power_pending' = PowerData(r.power)
         /\ UNCHANGED << chan, send_count >>

\* main.rs:173 with no calibration pending, then main.rs:178-182.
PowerSense(r) ==
    /\ ~halted
    /\ CpuFor("power")
    /\ BusOp(0, TRUE)
    /\ cpu' = None
    /\ power_pc = "check"
    /\ signal = None
    /\ power_trace' = Append(power_trace, "sense")
    /\ PowerSenseThen(r)
    /\ UNCHANGED << overflow_checks, listVars, truncVars, mainVars, halted, pin_level, btn_pc,
                    signal, renderVars, driver_cal,
                    reinit_count, last_applied >>

\* Mutant of PowerRecalibrate: the driver is re-initialized with the preset
\* it started with, not with the signalled one.
PowerRecalibrateDefaultPreset(ok) ==
    /\ ~halted
    /\ CpuFor("power")
    /\ BusOp(0, TRUE)
    /\ cpu' = None
    /\ power_pc = "check"
    /\ signal # None
    /\ signal' = None
    /\ reinit_count' = reinit_count + 1
    /\ last_applied' = signal
    /\ IF ok
       THEN /\ driver_cal' = "32V_2A"
            /\ power_pc' = "settle"
            /\ power_trace' = Append(power_trace, "reinit_ok")
            /\ UNCHANGED halted
       ELSE /\ halted' = TRUE
            /\ power_trace' = Append(power_trace, "reinit_err")
            /\ UNCHANGED << driver_cal, power_pc >>
    /\ UNCHANGED << overflow_checks, listVars, truncVars, mainVars, pin_level, btn_pc, chan,
                    send_count, renderVars, power_pending >>

\* main.rs:173-176: a calibration is pending; wait() takes it and resets the
\* signal, init(cal).unwrap() applies it or panics, and the task suspends
\* for the settling delay.
PowerRecalibrate(ok) ==
    /\ ~halted
    /\ CpuFor("power")
    /\ BusOp(0, TRUE)
    /\ cpu' = None
    /\ power_pc = "check"
    /\ signal # None
    /\ signal' = None
    /\ reinit_count' = reinit_count + 1
    /\ last_applied' = signal
    /\ IF ok
       THEN /\ driver_cal' = signal
            /\ power_pc' = "settle"
            /\ power_trace' = Append(power_trace, "reinit_ok")
            /\ UNCHANGED halted
       ELSE /\ halted' = TRUE
            /\ power_trace' = Append(power_trace, "reinit_err")
            /\ UNCHANGED << driver_cal, power_pc >>
    /\ UNCHANGED << overflow_checks, listVars, truncVars, mainVars, pin_level, btn_pc, chan,
                    send_count, renderVars, power_pending >>

\* Mutant of PowerSettled: after the settling delay the iteration ends
\* without a sample.
PowerSettledSkipsSample(r) ==
    /\ ~halted
    /\ CpuFor("power")
    /\ power_pc = "settle"
    /\ power_trace' = Append(power_trace, "settled")
    /\ power_pc' = "tick"
    /\ UNCHANGED << overflow_checks, listVars, truncVars, busVars, halted, pin_level, btn_pc,
                    signal, renderVars, driver_cal,
                    reinit_count, last_applied, power_pending, chan,
                    send_count >>

\* main.rs:176-182: the settling delay ends; the iteration goes on to sense.
PowerSettled(r) ==
    /\ ~halted
    /\ CpuFor("power")
    /\ BusOp(0, TRUE)
    /\ cpu' = None
    /\ power_pc = "settle"
    /\ power_trace' = power_trace \o << "settled", "sense" >>
    /\ PowerSenseThen(r)
    /\ UNCHANGED << overflow_checks, listVars, truncVars, mainVars, halted, pin_level, btn_pc,
                    signal, renderVars, driver_cal,
                    reinit_count, last_applied >>

\* main.rs:181: the suspended send completes once the slot is free.
PowerSend ==
    /\ ~halted
    /\ CpuFor("power")
    /\ power_pc = "send"
    /\ ChannelHasRoom
    /\ chan' = ChannelPush(power_pending)
    /\ send_count' = send_count + 1
    /\ power_pending' = NoData
    /\ power_pc' = "tick"
    /\ UNCHANGED << overflow_checks, listVars, truncVars, busVars, halted, pin_level, btn_pc,
                    signal, renderVars, driver_cal,
                    reinit_count, last_applied, power_trace >>

\* main.rs:183: the ticker fires and the loop starts over.
PowerTick ==
    /\ ~halted
    /\ CpuFor("power")
    /\ power_pc = "tick"
    /\ power_pc' = "check"
    /\ power_trace' = << >>
    /\ UNCHANGED << overflow_checks, listVars, truncVars, busVars, halted, pin_level, btn_pc,
                    chan, signal, send_count, renderVars,
                    power_pending, driver_cal, reinit_count, last_applied >>

\* One iteration of the render loop, main.rs:423-492: receive, the button
\* branch, formatting, and the draw.  Nothing in it suspends after the
\* receive, so it is one step.  d holds the Results of the draws of the
\* iteration: every one of them is bound with `let _ =` (main.rs:483-488),
\* so an Err is dropped, the draws after it are still made, the loop goes
\* on, and main.rs:490 still records the text as rendered.
RenderDraw(d) ==
    /\ ~halted
    /\ CpuFor("main")
    /\ main_pc = "loop"
    /\ chan # << >>
    /\ LET received == Head(chan)
           is_cal   == received.button = 0
           index    == IF is_cal THEN NextCalIndex(cal_index) ELSE cal_index
           mode     == ModeAfterButton(received.button, power_display)
           msg      == IF is_cal
                       THEN get_calibration_text(get_calibration(index))
                       ELSE None
           buf      == FormatReadout(mode, received.power)
           unit     == FormatUnit(mode)
       IN
       /\ chan' = ChannelPop
       /\ recv_count' = recv_count + 1
       /\ input_data' = [received EXCEPT !.msg = msg]
       /\ cal_index' = index
       /\ prev_power_display' = power_display
       /\ power_display' = mode
       /\ IF is_cal
          THEN /\ signal' = SignalPublish(signal, get_calibration(index))
               /\ last_published' = get_calibration(index)
               /\ cal_events' = cal_events + 1
               /\ cal_bursts' = IF signal = None THEN cal_bursts + 1
                                ELSE cal_bursts
          ELSE UNCHANGED << signal, last_published, cal_events, cal_bursts >>
       /\ prev_last_buf' = last_power_display_buf
       /\ prev_overlay' = IF display.overlay_cut THEN None
                          ELSE display.overlay
       /\ IF msg # None
          THEN \* main.rs:432 and 483-484: the overlay covers the panel.
               /\ last_power_display_buf' = LastBufAfterOverlay
               /\ LET cleared == IF d.clear THEN BlankPanel ELSE display
                  IN display' = IF d.msg
                                THEN [cleared EXCEPT !.overlay = msg,
                                                     !.overlay_cut = FALSE]
                                ELSE cleared
               /\ drawn' = IF d.clear /\ d.msg THEN "overlay"
                           ELSE "overlay_failed"
          ELSE \* main.rs:486-490
               /\ last_power_display_buf' = buf
               /\ IF ReadoutDiffers(buf, last_power_display_buf)
                  THEN /\ display' =
                              [overlay |-> display.overlay,
                               overlay_cut |->
                                   /\ display.overlay # None
                                   /\ (display.overlay_cut
                                          \/ d.value # "rect_err"),
                               value |-> DrawTextWithBackground(
                                   d.value, display.value, buf),
                               value_cut |-> DrawCut(
                                   d.value, display.value, EmptyText,
                                   display.value_cut, FALSE),
                               unit |-> DrawTextWithBackground(
                                   d.unit, display.unit, unit),
                               unit_cut |-> DrawCut(
                                   d.unit, display.unit, None,
                                   display.unit_cut,
                                   d.value # "rect_err")]
                       /\ drawn' = IF d.value = "ok" /\ d.unit = "ok"
                                   THEN "readout"
                                   ELSE "readout_failed"
                  ELSE /\ display' = display
                       /\ drawn' = "nothing"
    /\ UNCHANGED << overflow_checks, listVars, truncVars, busVars, halted, pin_level, btn_pc,
                    send_count, powerVars >>

\* The render loop on a panel whose draws succeed.
Render == RenderDraw(AllDrawsOk)

(***************************************************************************)
(* Claims about the List widget.                                           *)
(***************************************************************************)

\* C1: for a List built with item_count >= 1 and visible_lines >= 1, after
\* any sequence of scroll_up / scroll_down calls from the constructed state
\* the selection is inside the window, window_start <= selected_index <
\* window_start + visible_lines, and inside the items, 0 <= selected_index
\* <= item_count - 1 (and no call has panicked).  Checked under SpecScroll.
C1_ScrollKeepsSelectionInWindow ==
    (list_state # "none" /\ item_count >= 1 /\ visible_lines >= 1) =>
        /\ list_state = "live"
        /\ window_start <= selected_index
        /\ selected_index < window_start + visible_lines
        /\ 0 <= selected_index
        /\ selected_index <= item_count - 1

\* A list longer than its window whose window has been scrolled down, the
\* selection sitting on the window's last row.
C1_Witness ==
    /\ list_state = "live"
    /\ list_op = "scroll_down"
    /\ visible_lines >= 1
    /\ item_count > visible_lines
    /\ window_start > 0
    /\ window_start = list_prev[2] + 1
    /\ selected_index = window_start + visible_lines - 1

\* C2: on a non-empty List (with visible_lines >= 1) the window contains the
\* selection after any interleaving of scroll_up, scroll_down, select_at_pos
\* and set_selected_index: 0 <= window_start <= selected_index <=
\* window_start + visible_lines - 1.  Checked under SpecList; set_selected_index
\* assigns the index and leaves window_start alone, which violates it.
C2_WindowContainsSelection ==
    (list_state = "live" /\ item_count >= 1 /\ visible_lines >= 1) =>
        /\ 0 <= window_start
        /\ window_start <= selected_index
        /\ selected_index <= window_start + visible_lines - 1

\* C3: for a List constructed with zero items every sequence of scroll_down,
\* scroll_up, select_at_pos and set_selected_index completes without failure
\* and leaves selected_index = 0.  Checked under SpecList; scroll_down
\* evaluates len - 1 on usize with len = 0, which violates it.
C3_EmptyListSelectionZero ==
    (list_state # "none" /\ item_count = 0) =>
        /\ list_state = "live"
        /\ selected_index = 0

\* C4: scroll_down called while selected_index = item_count - 1 leaves
\* selected_index unchanged, and in no state reached by scrolling does
\* window_start exceed item_count - visible_lines, for item_count >=
\* visible_lines >= 1.  Checked under SpecScroll.
C4_ScrollDownAtLastItem ==
    list_state # "none" =>
        /\ (list_op = "scroll_down" /\ list_prev[1] = item_count - 1) =>
               selected_index = list_prev[1]
        /\ (item_count >= visible_lines /\ visible_lines >= 1) =>
               window_start <= item_count - visible_lines

\* scroll_down has just run on the last item of a list longer than its
\* window, with the window at its last position.
C4_Witness ==
    /\ list_state = "live"
    /\ list_op = "scroll_down"
    /\ visible_lines >= 1
    /\ item_count > visible_lines
    /\ list_prev = << item_count - 1, item_count - visible_lines >>
    /\ selected_index = item_count - 1
    /\ window_start = item_count - visible_lines

\* C22: a scroll_down call leaves selected_index or adds one to it, and
\* leaves window_start or adds one to it; a scroll_up call leaves each or
\* takes one from it; window_start changes only when the new selected_index
\* is outside the window [window_start, window_start + visible_lines - 1]
\* the call started with.  Checked under SpecList, so also for selections
\* placed by select_at_pos and set_selected_index.
C22_ScrollStepsByOne ==
    LET sel0 == list_prev[1]
        ws0  == list_prev[2]
        outside == selected_index < ws0
                      \/ selected_index > ws0 + visible_lines - 1
    IN  /\ list_op = "scroll_down" =>
               /\ selected_index - sel0 \in { 0, 1 }
               /\ window_start - ws0 \in { 0, 1 }
               /\ window_start # ws0 => outside
        /\ list_op = "scroll_up" =>
               /\ selected_index - sel0 \in { 0, -1 }
               /\ window_start - ws0 \in { 0, -1 }
               /\ window_start # ws0 => outside

\* A scroll_up from the top row of a window that was not at the top of the
\* list: selection and window both moved up by one.
C22_Witness ==
    /\ list_state = "live"
    /\ list_op = "scroll_up"
    /\ list_prev[1] = list_prev[2]
    /\ list_prev[2] > 0
    /\ selected_index = list_prev[1] - 1
    /\ window_start = list_prev[2] - 1

\* C24 as stated: every constructed List has visible_lines >= 1, which is 1
\* for an empty list and viewport height / first item height otherwise, and
\* never 0, also when the viewport is shorter than one item.  List::new has
\* no lower bound on the quotient: a viewport shorter than the first item
\* gives visible_lines = 0, which violates it.  Checked under SpecScroll.
C24_VisibleLinesAtLeastOne ==
    list_state = "live" =>
        /\ visible_lines >= 1
        /\ item_count = 0 => visible_lines = 1
        /\ item_count > 0 =>
               \E height \in ViewportHeights :
                   visible_lines = height \div list_items[1]

\* The rows of the window the call started with whose box contains the point
\* given: row i lies (i - window_start) * height_i below the top of the list
\* and is ListWidth wide and height_i high.
RowsHit ==
    { i \in 0..(item_count - 1) :
        /\ list_prev[2] <= i
        /\ i < list_prev[2] + visible_lines
        /\ list_items[i + 1] > 0
        /\ list_point[1] >= 0 /\ list_point[1] < ListWidth
        /\ list_point[2] >= (i - list_prev[2]) * list_items[i + 1]
        /\ list_point[2] < (i - list_prev[2] + 1) * list_items[i + 1] }

\* C23: select_at_pos selects the first row, in window order, whose box
\* contains the point, and returns the resulting selected_index (when the
\* redraw succeeds); it selects only an index in [window_start,
\* min(window_start + visible_lines, item_count)), leaves window_start as it
\* was, and when no visible row contains the point leaves selected_index as
\* it was and returns that.
C23_SelectAtPosFirstHit ==
    list_op = "select_at_pos" =>
        /\ window_start = list_prev[2]
        /\ list_ret \in { -1, selected_index }
        /\ IF RowsHit = {}
           THEN selected_index = list_prev[1]
           ELSE /\ selected_index \in RowsHit
                /\ \A i \in RowsHit : selected_index <= i
                /\ selected_index >= window_start
                /\ selected_index < Min(window_start + visible_lines,
                                        item_count)

\* A point inside the boxes of two rows (a tall first row overlapped by the
\* second): the first of them was selected and returned, the selection
\* having been elsewhere before.
C23_Witness ==
    /\ list_op = "select_at_pos"
    /\ Cardinality(RowsHit) >= 2
    /\ selected_index # list_prev[1]
    /\ list_ret = selected_index
    /\ \A i \in RowsHit : selected_index <= i

(***************************************************************************)
(* Claims about the firmware.                                              *)
(***************************************************************************)
Producers == Buttons \cup { -1 }

\* Producer q (a button, or -1 for handle_power) is suspended in send.
SuspendedInSend(q) ==
    IF q = -1 THEN power_pc = "send" ELSE btn_pc[q] = "send"

\* C5: INPUT_CHANNEL holds at most one pending event in every reachable
\* state, and no send completes while an earlier event is unreceived: the
\* completed sends are never more than one ahead of the receives.
C5_ChannelHoldsAtMostOne ==
    /\ Len(chan) <= 1
    /\ send_count - recv_count <= 1
    /\ recv_count <= send_count

\* Two producers have raced: the event of one is queued and the other is
\* suspended in send.
C5_Witness ==
    /\ ~halted
    /\ Len(chan) = 1
    /\ \E q \in Producers : q # chan[1].button /\ SuspendedInSend(q)

\* C6: no event is dropped or duplicated, and events are received in the
\* order in which their sends completed: with the completed sends numbered
\* 1, 2, ... the render loop has received exactly the events 1..recv_count,
\* the last one received being number recv_count, and the only event sent
\* and not yet received is the one queued, number send_count.
C6_ExactlyOnceInOrder ==
    /\ send_count = recv_count + Len(chan)
    /\ \A i \in 1..Len(chan) : chan[i].id = recv_count + i
    /\ recv_count > 0 => input_data.id = recv_count

\* Three events have gone through, a sensor reading between two button
\* events or after them: two received, one queued.
C6_Witness ==
    /\ recv_count = 2
    /\ input_data.button = -1
    /\ Len(chan) = 1
    /\ chan[1].button = 2

\* C7: CALIBRATION_SIGNAL is single-slot and latest-wins: the pending value
\* is always the last one published; each run of publications made while
\* the signal stays unconsumed leads to exactly one re-initialization; and
\* once the signal has been consumed the setting applied is the last one
\* published, never an earlier one.
C7_SignalLatestWins ==
    /\ reinit_count + (IF signal # None THEN 1 ELSE 0) = cal_bursts
    /\ signal # None => signal = last_published
    /\ (signal = None /\ reinit_count > 0) => last_applied = last_published

\* Two settings were published before the poller looked; it has
\* re-initialized once, with the second.
C7_Witness ==
    /\ ~halted
    /\ cal_events = 2
    /\ cal_bursts = 1
    /\ reinit_count = 1
    /\ signal = None
    /\ last_applied = get_calibration(2)
    /\ driver_cal = get_calibration(2)

\* C8: calibration cycling is modular over the 3 presets: cal_index is in
\* {0, 1, 2} and, having started at 0, equals the number of button-0 events
\* processed modulo 3 whatever other events came in between, so that three
\* calibration events bring it back to 0.
C8_CalIndexModular ==
    /\ cal_index \in 0..2
    /\ cal_index = cal_events % 3

\* Three calibration events have been processed.
C8_Witness ==
    /\ cal_events = 3
    /\ cal_index = 0
    /\ input_data.button = 0

ModePosition(mode) ==
    CASE mode = "Voltage" -> 1 [] mode = "Current" -> 2 [] mode = "Power" -> 3

\* C9: DisplayMode cycling clamps and never wraps: a button-1 event in
\* Voltage and a button-2 event in Power leave the mode unchanged; any other
\* button-1 (button-2) event moves it one position back (forward) in the
\* order Voltage, Current, Power; other events leave it alone.
C9_DisplayModeClamps ==
    recv_count > 0 =>
        LET before == ModePosition(prev_power_display)
            after  == ModePosition(power_display)
        IN  CASE input_data.button = 1 ->
                    after = (IF before = 1 THEN 1 ELSE before - 1)
              [] input_data.button = 2 ->
                    after = (IF before = 3 THEN 3 ELSE before + 1)
              [] OTHER -> after = before

\* A button-2 event has been processed in the last mode.
C9_Witness ==
    /\ input_data.button = 2
    /\ prev_power_display = "Power"
    /\ power_display = "Power"

\* C10: each detected press yields exactly one InputEvent however long the
\* button is held.  Checked under SpecHold, where every button is pressed at
\* most once and never released: the one press has yielded its event when
\* the task is in its cooldown, so no wait may complete when the cooldown
\* ends.  The waits are level waits (wait_for_low / wait_for_high), so a
\* press that outlasts the cooldown is detected again, which violates it.
C10_OneEventPerPress ==
    [][\A b \in Buttons :
           ~(btn_pc[b] = "cooldown" /\ btn_pc'[b] = "woken")]_vars

(***************************************************************************)
(* Claims about the poller's failures and the render step.  Checked under  *)
(* Spec.                                                                   *)
(***************************************************************************)

\* C12: when the first init of the power monitor fails, handle_power
\* terminates: it never samples, never re-initializes and never sends a
\* sensor event (none is queued, pending or being processed), and the
\* firmware is not stopped: the render loop takes what is queued and the
\* button tasks go on waiting, sending and cooling down.
C12_InitFailureEndsPollerOnly ==
    (power_trace # << >> /\ Head(power_trace) = "init_err") =>
        /\ power_pc = "terminated"
        /\ power_trace = << "init_err" >>
        /\ driver_cal = None
        /\ reinit_count = 0
        /\ power_pending = NoData
        /\ \A i \in 1..Len(chan) : chan[i].button \in Buttons
        /\ recv_count > 0 => input_data.button \in Buttons
        /\ ~halted
        /\ chan # << >> => ENABLED Render
        /\ \A b \in Buttons :
            /\ (btn_pc[b] = "woken"
                  /\ Created < MaxEvents) => ENABLED ButtonWake(b)
            /\ (btn_pc[b] = "send" /\ ChannelHasRoom) => ENABLED ButtonSend(b)
            /\ btn_pc[b] = "cooldown" => ENABLED ButtonCooldownDone(b)

\* The first init has failed, and button events have since been sent,
\* received and processed by the render loop.
C12_Witness ==
    /\ power_trace = << "init_err" >>
    /\ power_pc = "terminated"
    /\ recv_count >= 2
    /\ input_data.button \in Buttons
    /\ input_data.id = recv_count
    /\ chan # << >>

\* C13 as stated: a pin error returned by a button task's wait ends that
\* task and no other: the firmware is not stopped, so the other button
\* tasks, the poller and the render loop go on.  Checked under SpecPinError;
\* the wait's result is unwrapped and the panic stops every task, which
\* violates it.
C13_PinErrorEndsTaskOnly ==
    \A b \in Buttons : btn_pc[b] = "panicked" =>
        /\ ~halted
        /\ chan # << >> => ENABLED Render
        /\ power_pc = "tick" => ENABLED PowerTick

\* C11: the bus serves one driver call at a time: no two handles have a
\* driver call under way at once, and no handle makes a bus operation
\* between the bus operations of the other handle's driver call (the
\* write_read of a read, the two writes of the fuel gauge's register write,
\* the read and the two writes of compensation, the operations of an INA219
\* call).  Checked under SpecBus.
C11_BusTransactionsAtomic ==
    /\ ~bus_conflict
    /\ ~(txn_open[0] /\ txn_open[1])
    /\ txn_open[1] =>
           (cpu = "main"
              /\ main_pc \in { "lipo_write_reg", "lipo_write_val" })
    /\ txn_open[0] => cpu = "power"

\* Both handles have been used: the fuel gauge's compensation (read, write,
\* write) completed at startup, and the poller is in the middle of an
\* INA219 call while main has reached its loop.
C11_Witness ==
    /\ main_pc = "loop"
    /\ has_lipo_monitor
    /\ display.value = BatteryText
    /\ txn_open[0]
    /\ cpu = "power"
    /\ power_pc = "check"

ZeroText(mode) ==
    IF mode = "Voltage" THEN Text("{:>2.3}", 0) ELSE Text("{:>5}", 0)

FieldText(mode, power) ==
    CASE mode = "Voltage" -> Text("{:>2.3}", power.Voltage)
      [] mode = "Current" -> Text("{:>5}", power.Current)
      [] mode = "Power"   -> Text("{:>5}", power.Power)

\* C16: in every display mode the readout formatted for an event whose
\* power snapshot has current = 0 is the zero text ("0.000" in Voltage
\* mode), whatever its voltage and power fields are; the field of the mode
\* is formatted only when the current is not zero.  The formatted text is
\* what the step leaves in last_power_display_buf, and on the panel when it
\* draws.
C16_ZeroCurrentFallback ==
    (recv_count > 0 /\ input_data.msg = None) =>
        /\ input_data.power.Current = 0 =>
               last_power_display_buf = ZeroText(power_display)
        /\ input_data.power.Current # 0 =>
               last_power_display_buf =
                   FieldText(power_display, input_data.power)
        /\ drawn = "readout" => display.value = last_power_display_buf

\* A reading of 5 V at zero current was processed in Voltage mode and the
\* zero text was drawn.
C16_Witness ==
    /\ recv_count > 0
    /\ input_data.msg = None
    /\ input_data.power.Current = 0
    /\ input_data.power.Voltage = 5
    /\ input_data.power.Power = 10
    /\ power_display = "Voltage"
    /\ drawn = "readout"
    /\ display.value = Text("{:>2.3}", 0)

\* C17: a render iteration for an event without a status message draws
\* the readout (value and unit) exactly when the newly formatted text
\* differs from last_power_display_buf as it was before the iteration, draws
\* nothing when the text is the same, and leaves last_power_display_buf
\* equal to the newly formatted text.
C17_ReadoutDiffing ==
    (recv_count > 0 /\ input_data.msg = None) =>
        /\ drawn \in { "readout", "nothing" }
        /\ drawn = "readout" <=>
               FormatReadout(power_display, input_data.power) # prev_last_buf
        /\ last_power_display_buf =
               FormatReadout(power_display, input_data.power)
        /\ drawn = "readout" =>
               /\ display.value = last_power_display_buf
               /\ display.unit = FormatUnit(power_display)
               /\ ~display.value_cut /\ ~display.unit_cut

\* An event formatted to the text already shown: nothing was drawn.
C17_Witness ==
    /\ recv_count >= 2
    /\ input_data.msg = None
    /\ drawn = "nothing"
    /\ last_power_display_buf = prev_last_buf
    /\ last_power_display_buf # EmptyText
    /\ display.value = last_power_display_buf

\* C18: the iteration that processes a button-0 event draws the status
\* overlay and no readout, and clears last_power_display_buf; the overlay
\* is on the panel exactly while that event is the last one processed; and
\* the next event without a status message always draws the readout.
C18_OverlayUntilNextEvent ==
    /\ (recv_count > 0 /\ input_data.button = 0) =>
           /\ drawn = "overlay"
           /\ display = [BlankPanel EXCEPT !.overlay =
                  get_calibration_text(get_calibration(cal_index))]
           /\ last_power_display_buf = EmptyText
    /\ (display.overlay # None /\ ~display.overlay_cut) =>
           (recv_count > 0 /\ input_data.button = 0)
    /\ (recv_count > 0 /\ input_data.msg = None /\ prev_overlay # None) =>
           /\ drawn = "readout"
           /\ display.value = last_power_display_buf

\* The overlay was up, and the next event, formatted to the very text that
\* was shown before the overlay went up, drew the readout.
C18_Witness ==
    /\ recv_count >= 3
    /\ input_data.msg = None
    /\ prev_overlay # None
    /\ prev_last_buf = EmptyText
    /\ drawn = "readout"
    /\ display.value = Text("{:>2.3}", 0)
    /\ power_display = "Voltage"

\* C21 as stated: a draw error of the status-message overlay is ignored,
\* while a draw error of the primary readout is surfaced and not swallowed.
\* main has nobody to return an Err to, so surfacing is what the startup
\* draws do with unwrap: the firmware stops.  The render loop drops the
\* Result of the readout draws as well, so a failed readout draw leaves the
\* firmware running, which violates it.
C21_ReadoutDrawErrorSurfaced ==
    [][recv_count' # recv_count =>
           /\ drawn' = "overlay_failed" => ~halted'
           /\ drawn' = "readout_failed" => halted']_vars

\* The sensor poller is running: its first init succeeded and no unwrap has
\* stopped the firmware.
PollerRunning ==
    /\ ~halted
    /\ power_pc \in { "check", "settle", "send", "tick" }

\* C26: while the sensor poller is running and no calibration signal is
\* pending, the calibration last applied to the power-monitor driver is
\* get_calibration(cal_index) of the render loop, in every interleaving of
\* button events and poller ticks; both start at the 32V/2A preset, index 0.
C26_AppliedCalibrationMatchesIndex ==
    /\ (PollerRunning /\ signal = None) =>
           driver_cal = get_calibration(cal_index)
    /\ (PollerRunning /\ cal_events = 0) =>
           (cal_index = 0 /\ driver_cal = "32V_2A")

\* The poller has applied a preset other than the one it started with.
C26_Witness ==
    /\ PollerRunning
    /\ signal = None
    /\ reinit_count > 0
    /\ cal_index # 0
    /\ driver_cal = get_calibration(cal_index)

\* main is inside Max17048::new, at one of the bus operations of
\* compensation(DEFAULT_RCOMP).
InLipoConstruction ==
    main_pc \in { "lipo_read", "lipo_write_reg", "lipo_write_val" }

\* C28 as stated: startup gets to the render loop whether or not the fuel
\* gauge answers: a bus error during the construction of the fuel-gauge
\* driver (the compensation read-modify-write) comes back as an error value
\* and does not stop the program, and the battery voltage is read only when
\* the fuel gauge was detected.  Max17048::new unwraps the Result of
\* compensation, so the first failed bus operation panics, which violates it.
C28_StartupSurvivesFuelGauge ==
    [][/\ InLipoConstruction => (~halted' /\ main_pc' # "panicked")
       /\ (main_pc = "vcell" /\ main_pc' # "vcell") => has_lipo_monitor]_vars

\* C27 as stated: the pipeline cannot deadlock.  Under fair scheduling every
\* producer suspended in send completes its send, and every event sent is
\* processed by the render loop, which blocks on the channel receive only.
\* Checked under SpecFair.  The unwrap of a failed re-initialization (C20)
\* stops every task, the render loop included, so a producer suspended at
\* that moment stays suspended and a queued event stays queued, which
\* violates it.
C27_SendsCompleteEventsProcessed ==
    /\ \A q \in Producers : SuspendedInSend(q) ~> ~SuspendedInSend(q)
    /\ \A n \in 1..MaxEvents : (send_count >= n) ~> (recv_count >= n)

\* C25 as stated: once the render loop has processed an event without a
\* status message, the unit on the panel is the unit of the current display
\* mode; a mode button that changes the mode gets the new unit drawn even
\* when the value text is the one last rendered.  The readout is drawn only
\* when the value text differs: going from Current to Power with a zero
\* reading formats the same text, nothing is drawn, and the panel keeps
\* "mA", which violates it.
C25_UnitMatchesMode ==
    (recv_count > 0 /\ input_data.msg = None) =>
        /\ display.unit = FormatUnit(power_display)
        /\ power_display # prev_power_display => drawn = "readout"

ReinitSteps == { "reinit_ok", "reinit_err" }

TraceHas(steps) == \E i \in 1..Len(power_trace) : power_trace[i] \in steps

\* C19 as stated: in an iteration of handle_power's loop the calibration
\* check comes first, a re-initialization is followed by the settling delay
\* before any sample, and no iteration both re-initializes and samples.
\* The iteration that re-initialized goes on to sense() once the delay is
\* over, which violates the last part.
C19_NeverReinitAndSample ==
    /\ \A i \in 1..Len(power_trace) :
           power_trace[i] \in ReinitSteps => i = 1
    /\ \A i \in 1..Len(power_trace) :
           (power_trace[i] = "sense" /\ TraceHas(ReinitSteps)) =>
               (i > 2 /\ power_trace[i - 1] = "settled")
    /\ ~(TraceHas(ReinitSteps) /\ TraceHas({ "sense" }))

\* C19, amended: in an iteration the calibration check comes first; when a
\* calibration is pending the driver is re-initialized with it and the
\* settling delay elapses before the sample; and every iteration that
\* reaches its end has attempted exactly one sample, the re-initializing
\* iteration after its settling delay.
C19_ReinitSettlesThenSamples ==
    /\ power_trace \in { << >>, << "init_err" >>, << "sense" >>,
                         << "reinit_ok" >>, << "reinit_err" >>,
                         << "reinit_ok", "settled", "sense" >> }
    /\ power_pc = "settle" <=> power_trace = << "reinit_ok" >>
    /\ power_pc \in { "send", "tick" } =>
           power_trace[Len(power_trace)] = "sense"
    /\ power_pc = "check" => power_trace \in { << >>, << "reinit_err" >> }

\* An iteration that re-initialized, waited the settling delay and sampled.
C19_Witness ==
    /\ power_trace = << "reinit_ok", "settled", "sense" >>
    /\ power_pc = "tick"
    /\ driver_cal = last_applied
    /\ ~halted

\* C20 as stated: a failed re-initialization goes unnoticed: the poller
\* waits the settling delay and samples again, and the firmware keeps
\* running.  init(cal.clone()).unwrap() panics on the error, which stops the
\* firmware and violates it.
C20_FailedReinitGoesUnnoticed ==
    TraceHas({ "reinit_err" }) =>
        /\ ~halted
        /\ power_pc \in { "settle", "send", "tick" }

(***************************************************************************)
(* Claims about the ellipsis truncation.  Checked under SpecTruncate.      *)
(***************************************************************************)
TruncBudget == trunc_in.width \div trunc_in.char_width

TruncTooWide == trunc_in.char_width * Len(trunc_in.text) > trunc_in.width

\* C14: when char_width * len(text) > max_width the call returns the first
\* (max_width / char_width) - 3 characters of the text followed by the
\* 3-character marker, max_width / char_width characters in all; otherwise
\* it returns the text unchanged.  A budget max_width / char_width below 3
\* makes text_len_visible - 3 underflow (the subject of C29) and the call
\* panics instead of returning, which violates it.
C14_TruncateResult ==
    trunc_pc # "idle" =>
        /\ ~trunc_out.panic
        /\ IF TruncTooWide
           THEN /\ Len(trunc_out.text) = TruncBudget
                /\ \A i \in 1..(TruncBudget - 3) :
                       trunc_out.text[i] = trunc_in.text[i]
                /\ \A i \in (TruncBudget - 2)..TruncBudget :
                       trunc_out.text[i] = "."
           ELSE trunc_out.text = trunc_in.text

\* C15: the truncation is idempotent: called with the same width and font
\* on a String it returned, it returns that String unchanged.
C15_TruncateIdempotent ==
    trunc_pc = "twice" => trunc_out2 = trunc_out

\* A text too wide for its width was cut and marked, and the result was
\* given to the function again.
C15_Witness ==
    /\ trunc_pc = "twice"
    /\ TruncTooWide
    /\ ~trunc_out.panic
    /\ Len(trunc_out.text) = TruncBudget
    /\ trunc_out.text # trunc_in.text
    /\ trunc_out2 = trunc_out

\* C29 as stated: the truncation completes without arithmetic underflow
\* for every width and every character width >= 1, also when the budget
\* width / char_width is below 3 and the text is wider than the width, and
\* what it returns has at most max(width / char_width, 3) characters.
\* text_len_visible - 3 underflows for a budget of 0, 1 or 2 and the call
\* panics, which violates it.
C29_TruncateNeverUnderflows ==
    trunc_pc # "idle" =>
        /\ ~SubPanics(TRUE, TruncBudget, 3) \/ ~TruncTooWide
        /\ ~trunc_out.panic
        /\ Len(trunc_out.text) <= (IF TruncBudget > 3 THEN TruncBudget ELSE 3)

(***************************************************************************)
(* Specifications.                                                         *)
(***************************************************************************)
Init ==
    /\ overflow_checks \in BOOLEAN
    /\ ListInit
    /\ TruncInit
    /\ PipeInit
    /\ power_pc = "absent"

ListConstruct ==
    \E items \in ItemLists, height \in ViewportHeights :
        ListNew(items, height)

ListScroll == ScrollDown \/ ScrollUp

ListSelect ==
    \/ \E p \in Points, draw_ok \in BOOLEAN : SelectAtPos(p[1], p[2], draw_ok)
    \/ \E index \in 0..(MaxItems + 1) : SetSelectedIndex(index)

\* A list driven by scroll_down / scroll_up only.
NextScroll == ListConstruct \/ ListScroll

SpecScroll == Init /\ [][NextScroll]_vars

\* A list driven by all four mutating operations.
NextList == ListConstruct \/ ListScroll \/ ListSelect

SpecList == Init /\ [][NextList]_vars

\* The firmware: the user, the four tasks and the render loop.
\* The ellipsis truncation called once, then again on its own output.
NextTruncate ==
    \/ \E width \in 0..MaxTruncWidth, text \in Texts,
          char_width \in 1..MaxCharWidth :
            TruncCall(width, text, char_width)
    \/ TruncCallAgain

SpecTruncate == Init /\ [][NextTruncate]_vars

InitFirmware ==
    /\ overflow_checks = FALSE
    /\ ListInit
    /\ TruncInit
    /\ PipeInit

ButtonTask ==
    \E b \in Buttons :
        PinChange(b) \/ ButtonWake(b) \/ ButtonSend(b) \/ ButtonCooldownDone(b)

PowerTask ==
    \/ \E ok \in BOOLEAN : PowerInit(ok) \/ PowerRecalibrate(ok)
    \/ \E r \in SenseResults : PowerSense(r) \/ PowerSettled(r)
    \/ PowerSend
    \/ PowerTick

Next == ButtonTask \/ PowerTask \/ Render

Spec == InitFirmware /\ [][Next]_vars

\* The firmware from the start of main, with the calibration button the
\* only one pressed: startup, the poller with its driver calls opened up,
\* and the render loop.
InitBus ==
    /\ overflow_checks = FALSE
    /\ ListInit
    /\ TruncInit
    /\ BootInit

MainStartup ==
    \/ \E ok \in BOOLEAN : MainProbeIna219(ok) \/ MainProbeLipo(ok)
    \/ \E ok \in BOOLEAN :
           MainLipoRead(ok) \/ MainLipoWriteReg(ok) \/ MainLipoWriteVal(ok)
    \/ \E setup_ok \in BOOLEAN, draw \in DrawOutcomes :
           MainSpawn(setup_ok, draw)
    \/ \E ok \in BOOLEAN, draw \in DrawOutcomes : MainVcell(ok, draw)
    \/ MainDelayDone

NextBus ==
    \/ MainStartup
    \/ PowerBusBegin
    \/ \E b \in Buttons : ButtonListen(b)
    \/ PinChange(0) \/ ButtonWake(0) \/ ButtonSend(0)
    \/ ButtonCooldownDone(0)
    \/ PowerTask
    \/ Render

SpecBus == InitBus /\ [][NextBus]_vars

\* The firmware on a panel whose draw calls may return Err, no INA219
\* having answered the probe: handle_power is not spawned (main.rs:380-382)
\* and the events are those of the buttons.
InitDrawError ==
    /\ InitFirmware
    /\ ~has_ina219

NextDrawError ==
    \/ ButtonTask
    \/ \E d \in RenderOutcomes : RenderDraw(d)

SpecDrawError == InitDrawError /\ [][NextDrawError]_vars

\* The firmware under the executor's scheduling: a task that has been woken
\* is polled, so a receive with an event queued and a send with room in the
\* channel are not put off for ever.
Fairness ==
    /\ WF_vars(Render)
    /\ WF_vars(PowerSend)
    /\ \A b \in Buttons : WF_vars(ButtonSend(b))

SpecFair == Spec /\ Fairness

\* The firmware with buttons that are pressed and held: no button is
\* released, and no INA219 has answered the probe.
PinPress(b) ==
    /\ pin_level[b] = IdleLevel(b)
    /\ PinChange(b)

NextHold ==
    \/ \E b \in Buttons :
           \/ PinPress(b)
           \/ ButtonWake(b)
           \/ ButtonSend(b)
           \/ ButtonCooldownDone(b)
    \/ Render

SpecHold == InitDrawError /\ [][NextHold]_vars

\* The firmware with pins whose wait may return Err.
NextPinError ==
    \/ Next
    \/ \E b \in Buttons : ButtonWaitError(b)

SpecPinError == InitFirmware /\ [][NextPinError]_vars

====
